---- MODULE Spec2Model ----
(***************************************************************************)
(* Model of adaptnlp's translation stack:                                  *)
(*   callback.py     GatherInputsCallback, SetInputsCallback,              *)
(*                   GeneratorCallback                                     *)
(*   model.py        one_batch, _BaseLearner, AdaptiveModel                *)
(*   translation.py  TransformersTranslator, EasyTranslator                *)
(* The learner engine (fastai_minima.Learner), the tokenizer and the       *)
(* pretrained model are external; they are modelled at the calls the       *)
(* repository makes to them, with symbolic results.                        *)
(***************************************************************************)
EXTENDS Integers, Sequences, FiniteSets, TLC

(* ------------------------------ bounds --------------------------------- *)
MaxTexts == 2
MaxBatchSize == 2
MaxFacades == 2

(* --------------------------- program constants -------------------------- *)
\* variant: GatherInputsCallback without its `order` attribute
GatherInputsNoOrder == 0
GatherInputsOrder == -3
SetInputsOrder == -1
DefaultOrder == 0
DefaultBeams == 1
DefaultMinLength == 0
DefaultMaxLength == 128

(* ------------------------------ strings -------------------------------- *)
\* A string is a sequence of symbols.  Colon stands for ": " of the f-string,
\* T5Prefix for the default prefix 'translate English to German'.
Colon == 0
T5Prefix == 9
Texts == {<<1>>, <<2, 1>>}
Identifiers == {"t5-small", "opus-mt"}

RECURSIVE SeqsUpTo(_, _)
SeqsUpTo(S, n) ==
    IF n = 0 THEN {<<>>}
    ELSE LET prev == SeqsUpTo(S, n - 1)
         IN prev \cup {Append(s, x) : s \in {p \in prev : Len(p) = n - 1}, x \in S}

\* sample lists of texts: non-empty, neighbours distinct
TextLists ==
    {l \in SeqsUpTo(Texts, MaxTexts) \ {<<>>} : \A i \in 1..(Len(l) - 1) : l[i] # l[i + 1]}

\* the `text` argument of predict: a str, or a non-empty list of str
TextArgs ==
    {[isStr |-> TRUE, s |-> t, l |-> <<>>] : t \in Texts}
    \cup {[isStr |-> FALSE, s |-> <<>>, l |-> l] : l \in TextLists}

(* ------------------------- external objects ----------------------------- *)
\* the _NoopModel() instance the shared learner is built with
Placeholder == [fam |-> "noop", src |-> "learner", serial |-> 0]
FamilyOf(ident) == IF ident = "t5-small" THEN "t5" ELSE "marian"
\* AutoModelForSeq2SeqLM.from_pretrained: a new model object per call
LoadedModel(ident, k) == [fam |-> FamilyOf(ident), src |-> ident, serial |-> k]
LoadedTokenizer(ident) == [src |-> ident]
\* the tokenizer object a caller hands to the constructor
UserTokenizer == [src |-> "user"]
\* model objects a caller can hand to the constructor
UserModels == {[fam |-> "noop", src |-> "user", serial |-> 0],
               [fam |-> "bart", src |-> "user", serial |-> 0]}

\* model objects a caller hands to set_model
SwapModels == {[fam |-> "bart", src |-> "user", serial |-> 0]}

\* variant: only the learner's own placeholder object is recognised
IsInitialModel(m) == m = Placeholder
\* model.py:89  isinstance(self.__learner.model, _NoopModel)
IsNoopModel(m) == m.fam = "noop"
IsT5(m) == m.fam = "t5"

GenParams(nb) == [num_beams |-> nb, min_length |-> DefaultMinLength,
                  max_length |-> DefaultMaxLength, early_stopping |-> TRUE]
NoParams == [num_beams |-> 0, min_length |-> 0, max_length |-> 0, early_stopping |-> FALSE]

(* ------------------------------ tensors -------------------------------- *)
Tensor(rows) == [rank |-> 2, rows |-> rows]
NoTensor == [rank |-> 0, rows |-> <<>>]
NoLoader == [none |-> TRUE, batches |-> <<>>]
NoInputs == [kind |-> "none", items |-> <<>>]

Min(a, b) == IF a < b THEN a ELSE b
SubSeqSafe(s, a, b) == IF a > b THEN <<>> ELSE SubSeq(s, a, Min(b, Len(s)))

(* ------------------- dict: ordered key/value pairs ---------------------- *)
\* A Python dict keeps insertion order: a sequence of [k, v] entries.
Keys(d) == [i \in 1..Len(d.items) |-> d.items[i].k]
Values(d) == [i \in 1..Len(d.items) |-> d.items[i].v]
HasKey(d, key) == \E i \in 1..Len(d.items) : d.items[i].k = key
Lookup(d, key) == d.items[CHOOSE i \in 1..Len(d.items) : d.items[i].k = key].v
\* a tuple or list of tensors: entries without keys
Positional(kind, vals) ==
    [kind |-> kind, items |-> [i \in 1..Len(vals) |-> [k |-> "", v |-> vals[i]]]]

(* ----------------------- translation.py: predict ------------------------ *)
\* variant: the str is not wrapped, so it is iterated symbol by symbol
NormalizeNoWrap(arg) ==
    IF arg.isStr THEN [i \in 1..Len(arg.s) |-> <<arg.s[i]>>] ELSE arg.l

\* translation.py:89-90  if isinstance(text, str): text = [text]
Normalize(arg) == IF arg.isStr THEN <<arg.s>> ELSE arg.l

\* translation.py:93-94  text = [f'{t5_prefix}: {t}' for t in text]
AddPrefix(model, prefix, text) ==
    IF IsT5(model)
    THEN [i \in 1..Len(text) |-> <<prefix, Colon>> \o text[i]]
    ELSE text

\* translation.py:122-138  _tokenize: TensorDataset(input_ids, attention_mask)
EncodedRow(tok, col, t) == [col |-> col, tok |-> tok.src, text |-> t]
Tokenize(tok, text) ==
    [i \in 1..Len(text) |-> <<EncodedRow(tok, 1, text[i]), EncodedRow(tok, 2, text[i])>>]

\* translation.py:97  DataLoader(dataset, batch_size=mini_batch_size)
NumBatches(n, bs) == (n + bs - 1) \div bs
Collate(samples) ==
    [c \in 1..Len(samples[1]) |-> Tensor([i \in 1..Len(samples) |-> samples[i][c]])]
DataLoader(ds, bs) ==
    [none |-> FALSE,
     batches |-> [k \in 1..NumBatches(Len(ds), bs) |->
                    Collate(SubSeqSafe(ds, (k - 1) * bs + 1, k * bs))]]

\* translation.py:107  apply(Self.squeeze(0), preds): each tensor of the
\* structure loses its leading dimension when that dimension has size 1
Squeeze0(t) == IF t.rank = 2 /\ Len(t.rows) = 1 THEN [rank |-> 1, rows |-> t.rows] ELSE t
ApplySqueeze(preds) == [i \in 1..Len(preds) |-> Squeeze0(preds[i])]

\* translation.py:112-116  tokenizer.decode(o, ...) of one token sequence
Decode(tok, o) == [tok |-> tok.src, of |-> o.rows]
\* decode is defined for one sequence of token ids
Decodable(o) == o.rank = 1
\* What decode makes of a whole batch of sequences is a fixed property of the
\* tokenizer object: the tokenizers from_pretrained builds raise on it, an
\* object a caller hands to the constructor may return one string for it.
DecodesBatch(tok) == tok.src = "user"

(* --------------------------- model.py: one_batch ------------------------ *)
\* variant: the sample is returned without its last tensor
OneBatchInputs(loader) == SubSeq(loader.batches[1], 1, Len(loader.batches[1]) - 1)
\* model.py:21-28  first(self): the first batch of a fresh iteration
OneBatch(loader) == loader.batches[1]

(* ------------------------------ callbacks ------------------------------- *)
Cb(name, order, params) == [name |-> name, order |-> order, params |-> params]
\* model.py:55  __cbs = [CudaCallback(), SetInputsCallback(), GatherInputsCallback()]
BaseCbs == <<Cb("CudaCallback", DefaultOrder, NoParams),
             Cb("SetInputsCallback", SetInputsOrder, NoParams),
             Cb("GatherInputsCallback", GatherInputsOrder, NoParams)>>
\* variant: the callback is built with generate's defaults
GeneratorCbDefaults(params) == Cb("GeneratorCallback", DefaultOrder, GenParams(DefaultBeams))
\* translation.py:103  GeneratorCallback(num_beams, min_length, max_length, early_stopping)
GeneratorCb(params) == Cb("GeneratorCallback", DefaultOrder, params)
\* the collector the learner's get_preds adds after the caller's callbacks
GatherPredsCb == Cb("GatherPredsCallback", DefaultOrder, NoParams)

\* the learner runs the callbacks of an event sorted by `order` (stable)
RECURSIVE InsertByOrder(_, _)
InsertByOrder(sorted, cb) ==
    IF sorted = <<>> THEN <<cb>>
    ELSE IF cb.order < Head(sorted).order THEN <<cb>> \o sorted
    ELSE <<Head(sorted)>> \o InsertByOrder(Tail(sorted), cb)
RECURSIVE SortedCbs(_)
SortedCbs(list) ==
    IF list = <<>> THEN <<>>
    ELSE InsertByOrder(SortedCbs(SubSeq(list, 1, Len(list) - 1)), list[Len(list)])

\* variant: the third tensor is looked for one position too far
GatherInputsOffByOne(b) ==
    [kind |-> "dict",
     items |-> <<[k |-> "input_ids", v |-> b.items[1].v],
                 [k |-> "attention_mask", v |-> b.items[2].v]>>
               \o (IF Len(b.items) > 3
                   THEN <<[k |-> "token_type_ids", v |-> b.items[3].v]>>
                   ELSE <<>>)]

\* callback.py:27-42  GatherInputsCallback.before_batch
GatherInputsBeforeBatch(b) ==
    [kind |-> "dict",
     items |-> <<[k |-> "input_ids", v |-> b.items[1].v],
                 [k |-> "attention_mask", v |-> b.items[2].v]>>
               \o (IF Len(b.items) > 2
                   THEN <<[k |-> "token_type_ids", v |-> b.items[3].v]>>
                   ELSE <<>>)]

\* variant: the test of the flag is inverted
SetInputsInverted(as_dict, inp) ==
    IF as_dict THEN Positional("list", Values(inp)) ELSE inp

\* callback.py:52-59  SetInputsCallback.before_batch
SetInputsBeforeBatch(as_dict, inp) ==
    IF ~as_dict THEN Positional("list", Values(inp)) ELSE inp

\* model.generate(input_ids, attention_mask, num_beams, ...): one generated
\* sequence per input row, tagged with the model that produced it
Generate(model, ids, mask, params) ==
    Tensor([i \in 1..Len(ids.rows) |->
              [by |-> "generate", model |-> model, ids |-> ids.rows[i],
               mask |-> mask.rows[i], params |-> params]])

\* variant: the hook stores pred and returns without CancelBatchException
GeneratorNoCancel(model, b, params) ==
    [pred |-> Generate(model, Lookup(b, "input_ids"), Lookup(b, "attention_mask"), params),
     cancel |-> FALSE]

\* callback.py:71-88  GeneratorCallback.before_batch: pred, then CancelBatchException
GeneratorBeforeBatch(model, b, params) ==
    [pred |-> Generate(model, Lookup(b, "input_ids"), Lookup(b, "attention_mask"), params),
     cancel |-> TRUE]

\* the learner's default step: self.pred = self.model(*self.xb)
Forward(model, b) ==
    Tensor([i \in 1..Len(b.items[1].v.rows) |->
              [by |-> "forward", model |-> model, ids |-> b.items[1].v.rows[i],
               mask |-> b.items[2].v.rows[i], params |-> NoParams]])

\* loaders a caller can pass to get_preds: batches of 2 or 3 tensors
UserRow(col, i) == [col |-> col, tok |-> "user", text |-> <<i>>]
UserLoader(arity, nb) ==
    [none |-> FALSE,
     batches |-> [k \in 1..nb |-> [c \in 1..arity |-> Tensor(<<UserRow(c, k)>>)]]]
UserLoaders == {UserLoader(a, nb) : a \in {2, 3}, nb \in {1, 2}}

(* ------------------------------- state ---------------------------------- *)
VARIABLES
    translators,  \* EasyTranslator.translators: identifier -> facade (0 = False)
    facades,      \* the TransformersTranslator instances: [tokenizer, model]
    loads,        \* identifier -> number of models constructed by load
    learnModel,   \* AdaptiveModel._learn: the shared learner's model
    asDict,       \* as_dict of the shared SetInputsCallback
    cbs,          \* the learner's registered callbacks, in registration order
    n_inp,        \* learn.dls.n_inp
    xb,           \* learn.xb
    inputs,       \* learn.inputs
    pred,         \* learn.pred
    gpPreds,      \* GatherPredsCallback.preds of the running get_preds
    pc,           \* position of the running call
    call,         \* the running call and its arguments
    text,         \* predict's local `text`
    dataset,      \* predict's local `dataset`
    dl,           \* the loader handed to get_preds
    callCbs,      \* the callbacks handed to get_preds
    batchIdx,     \* index of the batch being processed
    hookIdx,      \* index of the next before_batch hook, in run order
    result,       \* value returned by the call
    err,          \* exception raised by the call ("" = none)
    hookLog,      \* before_batch hooks run for the current batch
    genLog,       \* generate invocations of the running call
    fwdLog,       \* default forward computations of the running call
    tokLog,       \* tokenizer invocations of the running call
    last          \* the latest predict that returned or raised, as its caller saw it

learnerVars == <<learnModel, asDict, cbs, n_inp, xb, inputs, pred>>
registryVars == <<translators, facades, loads>>
callVars == <<pc, call, text, dataset, dl, callCbs, batchIdx, hookIdx, result, err, gpPreds>>
logVars == <<hookLog, genLog, fwdLog, tokLog, last>>
vars == <<translators, facades, loads, learnModel, asDict, cbs, n_inp, xb, inputs,
          pred, gpPreds, pc, call, text, dataset, dl, callCbs, batchIdx, hookIdx,
          result, err, hookLog, genLog, fwdLog, tokLog, last>>

NoArg == [isStr |-> FALSE, s |-> <<>>, l |-> <<>>]
NoCall == [kind |-> "none", f |-> 0, arg |-> NoArg, prefix |-> 0, mbs |-> 0,
           params |-> NoParams, ident |-> "", loaded |-> FALSE]
PredictCallRec(kind, f, arg, prefix, mbs, nb, ident, loaded) ==
    [kind |-> kind, f |-> f, arg |-> arg, prefix |-> prefix, mbs |-> mbs,
     params |-> GenParams(nb), ident |-> ident, loaded |-> loaded]
SimpleCall(kind, f) == [NoCall EXCEPT !.kind = kind, !.f = f]

FacadeIds == 1..Len(facades)

\* what a caller of predict can tell of a call: its arguments, the facade and
\* the learner's configuration it ran with, and its outcome
Outcome(c, facade, model, flag, res, e) ==
    [call |-> c, facade |-> facade, model |-> model, asDict |-> flag,
     result |-> res, err |-> e]
NoLast == Outcome(NoCall, [tokenizer |-> UserTokenizer, model |-> Placeholder],
                  Placeholder, FALSE, <<>>, "")

\* model.py:55-62, 110: one learner, built once at class creation
Init ==
    /\ translators = [i \in Identifiers |-> 0]
    /\ facades = <<>>
    /\ loads = [i \in Identifiers |-> 0]
    /\ learnModel = Placeholder
    /\ asDict = FALSE
    /\ cbs = BaseCbs
    /\ n_inp = 0
    /\ xb = NoInputs
    /\ inputs = NoInputs
    /\ pred = NoTensor
    /\ gpPreds = <<>>
    /\ pc = "idle"
    /\ call = NoCall
    /\ text = <<>>
    /\ dataset = <<>>
    /\ dl = NoLoader
    /\ callCbs = <<>>
    /\ batchIdx = 0
    /\ hookIdx = 0
    /\ result = <<>>
    /\ err = ""
    /\ hookLog = <<>>
    /\ genLog = <<>>
    /\ fwdLog = <<>>
    /\ tokLog = <<>>
    /\ last = NoLast

\* an exception leaves the running call; the learner's validation context
\* removes the callbacks get_preds added
Raise(e) ==
    /\ pc' = "error"
    /\ err' = e
    /\ cbs' = BaseCbs

(* ------------------ construction, configuration, stubs ------------------ *)
\* variant: the constructor leaves the flag at its default
ConstructFlagDefault(tok, m) ==
    /\ pc = "idle"
    /\ Len(facades) < MaxFacades
    /\ facades' = Append(facades, [tokenizer |-> tok, model |-> m])
    /\ learnModel' = m
    /\ UNCHANGED <<translators, loads, asDict, cbs, n_inp, xb, inputs, pred>>
    /\ UNCHANGED callVars
    /\ UNCHANGED logVars

\* translation.py:42-51  TransformersTranslator.__init__ (model.py:102-119)
Construct(tok, m) ==
    /\ pc = "idle"
    /\ Len(facades) < MaxFacades
    /\ facades' = Append(facades, [tokenizer |-> tok, model |-> m])
    /\ learnModel' = m
    /\ asDict' = TRUE
    /\ UNCHANGED <<translators, loads, cbs, n_inp, xb, inputs, pred>>
    /\ UNCHANGED callVars
    /\ UNCHANGED logVars

\* variant: set_model rebuilds the callback stage, the flag back at its default
SetModelRebuilds(f, m) ==
    /\ pc = "idle"
    /\ f \in FacadeIds
    /\ learnModel' = m
    /\ facades' = [facades EXCEPT ![f].model = m]
    /\ asDict' = FALSE
    /\ UNCHANGED <<translators, loads, cbs, n_inp, xb, inputs, pred>>
    /\ UNCHANGED callVars
    /\ UNCHANGED logVars

\* model.py:112-115  AdaptiveModel.set_model
SetModel(f, m) ==
    /\ pc = "idle"
    /\ f \in FacadeIds
    /\ learnModel' = m
    /\ facades' = [facades EXCEPT ![f].model = m]
    /\ UNCHANGED <<translators, loads, asDict, cbs, n_inp, xb, inputs, pred>>
    /\ UNCHANGED callVars
    /\ UNCHANGED logVars

\* model.py:117-119, 93-100  AdaptiveModel.set_as_dict
SetAsDict(f, b) ==
    /\ pc = "idle"
    /\ f \in FacadeIds
    /\ asDict' = b
    /\ UNCHANGED <<learnModel, cbs, n_inp, xb, inputs, pred>>
    /\ UNCHANGED registryVars
    /\ UNCHANGED callVars
    /\ UNCHANGED logVars

\* variant: train returns None
TrainReturns == ""
\* translation.py:140-143 / 145-148
TrainRaises == "NotImplementedError"
EvaluateRaises == "NotImplementedError"

StubCall(kind, f, outcome) ==
    /\ pc = "idle"
    /\ f \in FacadeIds
    /\ call' = SimpleCall(kind, f)
    /\ IF outcome = "" THEN pc' = "done" /\ err' = "" ELSE pc' = "error" /\ err' = outcome
    /\ UNCHANGED <<text, dataset, dl, callCbs, batchIdx, hookIdx, result, gpPreds>>
    /\ UNCHANGED learnerVars
    /\ UNCHANGED registryVars
    /\ UNCHANGED logVars

Train(f) == StubCall("train", f, TrainRaises)
Evaluate(f) == StubCall("evaluate", f, EvaluateRaises)

(* --------------------- predict, translate, get_preds -------------------- *)
\* variant: the registry is never consulted
NeverCached(registry, ident) == FALSE
\* translation.py:191  self.translators[model_name_or_path] is truthy
IsCached(registry, ident) == registry[ident] # 0

\* translation.py:88-94: normalise the argument, add the T5 prefix
BeginPredict(kind, f, facade, arg, prefix, mbs, nb, ident, loaded) ==
    /\ call' = PredictCallRec(kind, f, arg, prefix, mbs, nb, ident, loaded)
    /\ text' = AddPrefix(facade.model, prefix, Normalize(arg))
    /\ pc' = "tokenizing"
    /\ UNCHANGED <<dataset, dl, callCbs, batchIdx, hookIdx, result, err, gpPreds>>
    /\ UNCHANGED logVars

\* translation.py:64-94  TransformersTranslator.predict, up to tokenization
Predict(f, arg, prefix, mbs, nb) ==
    /\ pc = "idle"
    /\ f \in FacadeIds
    /\ BeginPredict("predict", f, facades[f], arg, prefix, mbs, nb, "", FALSE)
    /\ UNCHANGED learnerVars
    /\ UNCHANGED registryVars

\* translation.py:191-197  EasyTranslator.translate, identifier already cached
TranslateCached(ident, arg, prefix, mbs, nb) ==
    /\ pc = "idle"
    /\ IsCached(translators, ident)
    /\ BeginPredict("translate", translators[ident], facades[translators[ident]],
                    arg, prefix, mbs, nb, ident, FALSE)
    /\ UNCHANGED learnerVars
    /\ UNCHANGED registryVars

\* translation.py:191-197 with 53-62, 42-51: first use of an identifier loads it
TranslateLoad(ident, arg, prefix, mbs, nb) ==
    /\ pc = "idle"
    /\ ~IsCached(translators, ident)
    /\ Len(facades) < MaxFacades
    /\ LET m == LoadedModel(ident, loads[ident] + 1)
           facade == [tokenizer |-> LoadedTokenizer(ident), model |-> m]
       IN /\ facades' = Append(facades, facade)
          /\ loads' = [loads EXCEPT ![ident] = @ + 1]
          /\ translators' = [translators EXCEPT ![ident] = Len(facades) + 1]
          /\ learnModel' = m
          /\ asDict' = TRUE
          /\ BeginPredict("translate", Len(facades) + 1, facade, arg, prefix, mbs, nb, ident, TRUE)
    /\ UNCHANGED <<cbs, n_inp, xb, inputs, pred>>

\* variant: the failed load leaves a half-built translator in the registry
TranslateLoadFailsCaches(ident) ==
    /\ pc = "idle"
    /\ ~IsCached(translators, ident)
    /\ Len(facades) < MaxFacades
    /\ call' = [SimpleCall("translate", 0) EXCEPT !.ident = ident]
    /\ pc' = "error"
    /\ err' = "OSError"
    /\ facades' = Append(facades, [tokenizer |-> LoadedTokenizer(ident), model |-> Placeholder])
    /\ translators' = [translators EXCEPT ![ident] = Len(facades) + 1]
    /\ UNCHANGED loads
    /\ UNCHANGED <<text, dataset, dl, callCbs, batchIdx, hookIdx, result, gpPreds>>
    /\ UNCHANGED learnerVars
    /\ UNCHANGED logVars

\* translation.py:192 with 59-60: from_pretrained raises, nothing is stored
TranslateLoadFails(ident) ==
    /\ pc = "idle"
    /\ ~IsCached(translators, ident)
    /\ call' = [SimpleCall("translate", 0) EXCEPT !.ident = ident]
    /\ pc' = "error"
    /\ err' = "OSError"
    /\ UNCHANGED <<text, dataset, dl, callCbs, batchIdx, hookIdx, result, gpPreds>>
    /\ UNCHANGED learnerVars
    /\ UNCHANGED registryVars
    /\ UNCHANGED logVars

\* translation.py:96  dataset = self._tokenize(text)
TokenizeStep ==
    /\ pc = "tokenizing"
    /\ dataset' = Tokenize(facades[call.f].tokenizer, text)
    /\ tokLog' = Append(tokLog, text)
    /\ pc' = "batching"
    /\ UNCHANGED <<call, text, dl, callCbs, batchIdx, hookIdx, result, err, gpPreds>>
    /\ UNCHANGED <<hookLog, genLog, fwdLog, last>>
    /\ UNCHANGED learnerVars
    /\ UNCHANGED registryVars

\* translation.py:97-105  the loader, the GeneratorCallback, the get_preds call
BatchingStep ==
    /\ pc = "batching"
    /\ dl' = DataLoader(dataset, call.mbs)
    /\ callCbs' = <<GeneratorCb(call.params)>>
    /\ pc' = "get_preds"
    /\ UNCHANGED <<call, text, dataset, batchIdx, hookIdx, result, err, gpPreds>>
    /\ UNCHANGED logVars
    /\ UNCHANGED learnerVars
    /\ UNCHANGED registryVars

\* model.py:121-127  AdaptiveModel.get_preds called on some facade: it
\* delegates to the class-level _learn and reads nothing of the instance
GetPreds(loader, userCbs) ==
    /\ pc = "idle"
    /\ FacadeIds # {}
    /\ call' = SimpleCall("get_preds", 0)
    /\ dl' = loader
    /\ callCbs' = userCbs
    /\ pc' = "get_preds"
    /\ UNCHANGED <<text, dataset, batchIdx, hookIdx, result, err, gpPreds>>
    /\ UNCHANGED logVars
    /\ UNCHANGED learnerVars
    /\ UNCHANGED registryVars

\* model.py:82-91  _BaseLearner.get_preds: the two guards, then the learner
GetPredsGuard ==
    /\ pc = "get_preds"
    /\ IF dl.none
       THEN Raise("ValueError: dl") /\ UNCHANGED <<batchIdx, gpPreds>>
       ELSE IF IsNoopModel(learnModel)
       THEN Raise("ValueError: default model") /\ UNCHANGED <<batchIdx, gpPreds>>
       ELSE /\ cbs' = BaseCbs \o callCbs \o <<GatherPredsCb>>
            /\ pc' = "before_validate"
            /\ UNCHANGED <<err, batchIdx, gpPreds>>
    /\ UNCHANGED <<call, text, dataset, dl, callCbs, hookIdx, result>>
    /\ UNCHANGED <<learnModel, asDict, n_inp, xb, inputs, pred>>
    /\ UNCHANGED logVars
    /\ UNCHANGED registryVars

(* ---------------- the learner's validation pass (get_preds) ------------- *)
RunOrder == SortedCbs(cbs)
CurBatch == dl.batches[batchIdx]
InPredict == call.kind \in {"predict", "translate"}

\* callback.py:20-25 GatherInputsCallback.before_validate (model.py:21-28);
\* the collector starts with an empty list of predictions
BeforeValidate ==
    /\ pc = "before_validate"
    /\ n_inp' = Len(OneBatch(dl))
    /\ gpPreds' = <<>>
    /\ batchIdx' = 1
    /\ pc' = "begin_batch"
    /\ UNCHANGED <<call, text, dataset, dl, callCbs, hookIdx, result, err>>
    /\ UNCHANGED <<learnModel, asDict, cbs, xb, inputs, pred>>
    /\ UNCHANGED logVars
    /\ UNCHANGED registryVars

\* the learner splits the batch: xb = b[:n_inp]
BeginBatch ==
    /\ pc = "begin_batch"
    /\ xb' = Positional("tuple", SubSeqSafe(CurBatch, 1, n_inp))
    /\ hookIdx' = 1
    /\ hookLog' = <<>>
    /\ pc' = "before_batch"
    /\ UNCHANGED <<call, text, dataset, dl, callCbs, batchIdx, result, err, gpPreds>>
    /\ UNCHANGED <<learnModel, asDict, cbs, n_inp, inputs, pred>>
    /\ UNCHANGED <<genLog, fwdLog, tokLog, last>>
    /\ UNCHANGED registryVars

\* the hook `name` is the next before_batch hook to run
HookTurn(name) ==
    /\ pc = "before_batch"
    /\ hookIdx <= Len(RunOrder)
    /\ RunOrder[hookIdx].name = name
    /\ hookLog' = Append(hookLog, name)

\* the hook returned: the next hook, or the default computation after the last
HookReturns ==
    /\ IF hookIdx < Len(RunOrder)
       THEN hookIdx' = hookIdx + 1 /\ pc' = "before_batch"
       ELSE hookIdx' = hookIdx + 1 /\ pc' = "forward"
    /\ UNCHANGED <<call, text, dataset, dl, callCbs, batchIdx, result, err, gpPreds>>
    /\ UNCHANGED <<genLog, fwdLog, tokLog, last>>
    /\ UNCHANGED registryVars

\* CudaCallback.before_batch and GatherPredsCallback.before_batch leave the
\* modelled state alone (device placement; with_input is off)
HookPassive ==
    /\ \E name \in {"CudaCallback", "GatherPredsCallback"} : HookTurn(name)
    /\ HookReturns
    /\ UNCHANGED learnerVars

\* callback.py:27-42
HookGatherInputs ==
    /\ HookTurn("GatherInputsCallback")
    /\ inputs' = GatherInputsBeforeBatch(xb)
    /\ HookReturns
    /\ UNCHANGED <<learnModel, asDict, cbs, n_inp, xb, pred>>

\* callback.py:52-59
HookSetInputs ==
    /\ HookTurn("SetInputsCallback")
    /\ xb' = SetInputsBeforeBatch(asDict, inputs)
    /\ HookReturns
    /\ UNCHANGED <<learnModel, asDict, cbs, n_inp, inputs, pred>>

GenCall(returned) ==
    [batch |-> batchIdx, model |-> learnModel, params |-> RunOrder[hookIdx].params,
     returned |-> returned]

\* callback.py:71-88: generate returns; pred is stored; CancelBatchException
\* skips the remaining hooks and the default computation
HookGenerator ==
    /\ HookTurn("GeneratorCallback")
    /\ xb.kind = "dict"
    /\ LET r == GeneratorBeforeBatch(learnModel, xb, RunOrder[hookIdx].params)
       IN /\ pred' = r.pred
          /\ genLog' = Append(genLog, GenCall(TRUE))
          /\ IF r.cancel
             THEN hookIdx' = hookIdx /\ pc' = "after_batch"
             ELSE IF hookIdx < Len(RunOrder)
             THEN hookIdx' = hookIdx + 1 /\ pc' = "before_batch"
             ELSE hookIdx' = hookIdx + 1 /\ pc' = "forward"
    /\ UNCHANGED <<call, text, dataset, dl, callCbs, batchIdx, result, err, gpPreds>>
    /\ UNCHANGED <<learnModel, asDict, cbs, n_inp, xb, inputs>>
    /\ UNCHANGED <<fwdLog, tokLog, last>>
    /\ UNCHANGED registryVars

\* variant: a failed generate is tried again
HookGeneratorRetries ==
    /\ HookTurn("GeneratorCallback")
    /\ xb.kind = "dict"
    /\ genLog' = Append(genLog, GenCall(FALSE))
    /\ UNCHANGED <<pc, err, cbs>>
    /\ UNCHANGED <<call, text, dataset, dl, callCbs, batchIdx, hookIdx, result, gpPreds>>
    /\ UNCHANGED <<learnModel, asDict, n_inp, xb, inputs, pred>>
    /\ UNCHANGED <<fwdLog, tokLog, last>>
    /\ UNCHANGED registryVars

\* callback.py:76-84: model.generate raises
HookGeneratorRaises ==
    /\ HookTurn("GeneratorCallback")
    /\ xb.kind = "dict"
    /\ genLog' = Append(genLog, GenCall(FALSE))
    /\ Raise("GenerationError")
    /\ UNCHANGED <<call, text, dataset, dl, callCbs, batchIdx, hookIdx, result, gpPreds>>
    /\ UNCHANGED <<learnModel, asDict, n_inp, xb, inputs, pred>>
    /\ UNCHANGED <<fwdLog, tokLog, last>>
    /\ UNCHANGED registryVars

\* callback.py:77: self.xb['input_ids'] on the positional list
HookGeneratorNoDict ==
    /\ HookTurn("GeneratorCallback")
    /\ xb.kind # "dict"
    /\ Raise("TypeError")
    /\ UNCHANGED <<call, text, dataset, dl, callCbs, batchIdx, hookIdx, result, gpPreds>>
    /\ UNCHANGED <<learnModel, asDict, n_inp, xb, inputs, pred>>
    /\ UNCHANGED <<genLog, fwdLog, tokLog, last>>
    /\ UNCHANGED registryVars

\* the learner's default computation: self.pred = self.model(*self.xb).
\* Unpacking the dict passes its keys, which a model rejects.
DoOneBatch ==
    /\ pc = "forward"
    /\ fwdLog' = Append(fwdLog, [batch |-> batchIdx, model |-> learnModel])
    /\ IF xb.kind = "dict"
       THEN Raise("TypeError") /\ UNCHANGED pred
       ELSE pred' = Forward(learnModel, xb) /\ pc' = "after_batch" /\ UNCHANGED <<err, cbs>>
    /\ UNCHANGED <<call, text, dataset, dl, callCbs, batchIdx, hookIdx, result, gpPreds>>
    /\ UNCHANGED <<learnModel, asDict, n_inp, xb, inputs>>
    /\ UNCHANGED <<hookLog, genLog, tokLog, last>>
    /\ UNCHANGED registryVars

\* variant: the pass ends one batch early
AfterBatchStopsEarly ==
    /\ pc = "after_batch"
    /\ gpPreds' = Append(gpPreds, pred)
    /\ IF batchIdx + 1 < Len(dl.batches)
       THEN batchIdx' = batchIdx + 1 /\ pc' = "begin_batch"
       ELSE batchIdx' = batchIdx /\ pc' = "after_validate"
    /\ UNCHANGED <<call, text, dataset, dl, callCbs, hookIdx, result, err>>
    /\ UNCHANGED learnerVars
    /\ UNCHANGED logVars
    /\ UNCHANGED registryVars

\* GatherPredsCallback.after_batch: preds.append(pred); then the next batch
AfterBatch ==
    /\ pc = "after_batch"
    /\ gpPreds' = Append(gpPreds, pred)
    /\ IF batchIdx < Len(dl.batches)
       THEN batchIdx' = batchIdx + 1 /\ pc' = "begin_batch"
       ELSE batchIdx' = batchIdx /\ pc' = "after_validate"
    /\ UNCHANGED <<call, text, dataset, dl, callCbs, hookIdx, result, err>>
    /\ UNCHANGED learnerVars
    /\ UNCHANGED logVars
    /\ UNCHANGED registryVars

\* model.py:30-33: after_validate does not concatenate, so get_preds returns
\* the list of per-batch predictions; the added callbacks are removed
AfterValidate ==
    /\ pc = "after_validate"
    /\ cbs' = BaseCbs
    /\ IF InPredict
       THEN pc' = "decoding" /\ UNCHANGED result
       ELSE pc' = "done" /\ result' = gpPreds
    /\ UNCHANGED <<call, text, dataset, dl, callCbs, batchIdx, hookIdx, err, gpPreds>>
    /\ UNCHANGED <<learnModel, asDict, n_inp, xb, inputs, pred>>
    /\ UNCHANGED logVars
    /\ UNCHANGED registryVars

(* ------------------- translation.py:107-120: decoding ------------------- *)
Squeezed == ApplySqueeze(gpPreds)
\* variant: the list of translations outlives the call that filled it
TranslationsKept ==
    last.result \o [i \in 1..Len(Squeezed) |-> Decode(facades[call.f].tokenizer, Squeezed[i])]
\* translation.py:98, 109-118: a fresh list, one decode appended per element
Translations ==
    [i \in 1..Len(Squeezed) |-> Decode(facades[call.f].tokenizer, Squeezed[i])]
AllDecodable == \A i \in 1..Len(Squeezed) : Decodable(Squeezed[i])

DecodeFrame ==
    /\ UNCHANGED <<call, text, dataset, dl, callCbs, batchIdx, hookIdx, gpPreds>>
    /\ UNCHANGED <<learnModel, asDict, n_inp, xb, inputs, pred>>
    /\ UNCHANGED logVars
    /\ UNCHANGED registryVars

\* one decode per element of preds
DecodeStep ==
    /\ pc = "decoding"
    /\ AllDecodable
    /\ result' = Translations
    /\ pc' = "done"
    /\ UNCHANGED <<err, cbs>>
    /\ DecodeFrame

\* an element of preds that still holds a whole batch is not a token
\* sequence; what decode makes of it is the tokenizer's business:
\* it raises ...
DecodeRejects ==
    /\ pc = "decoding"
    /\ ~AllDecodable
    /\ ~DecodesBatch(facades[call.f].tokenizer)
    /\ Raise("TypeError")
    /\ UNCHANGED result
    /\ DecodeFrame

\* ... or it returns one string for the batch
DecodeAccepts ==
    /\ pc = "decoding"
    /\ ~AllDecodable
    /\ DecodesBatch(facades[call.f].tokenizer)
    /\ result' = Translations
    /\ pc' = "done"
    /\ UNCHANGED <<err, cbs>>
    /\ DecodeFrame

\* The call returns or its exception reaches the caller.  What the finished
\* pass left in learn.xb, learn.inputs, learn.pred and dls.n_inp is replaced
\* by the unset values: StaleNeverRead shows that no later step reads them.
Return ==
    /\ pc \in {"done", "error"}
    /\ pc' = "idle"
    /\ call' = NoCall
    /\ text' = <<>>
    /\ dataset' = <<>>
    /\ dl' = NoLoader
    /\ callCbs' = <<>>
    /\ batchIdx' = 0
    /\ hookIdx' = 0
    /\ result' = <<>>
    /\ err' = ""
    /\ gpPreds' = <<>>
    /\ hookLog' = <<>>
    /\ genLog' = <<>>
    /\ fwdLog' = <<>>
    /\ tokLog' = <<>>
    /\ UNCHANGED last
    /\ n_inp' = 0
    /\ xb' = NoInputs
    /\ inputs' = NoInputs
    /\ pred' = NoTensor
    /\ UNCHANGED <<learnModel, asDict, cbs>>
    /\ UNCHANGED registryVars

\* The same return or propagation with nothing replaced: learn.xb,
\* learn.inputs, learn.pred and dls.n_inp stay as the pass left them, and
\* the caller of a predict holds its outcome.
ReturnKeeping ==
    /\ pc \in {"done", "error"}
    /\ pc' = "idle"
    /\ call' = NoCall
    /\ text' = <<>>
    /\ dataset' = <<>>
    /\ dl' = NoLoader
    /\ callCbs' = <<>>
    /\ batchIdx' = 0
    /\ hookIdx' = 0
    /\ result' = <<>>
    /\ err' = ""
    /\ gpPreds' = <<>>
    /\ hookLog' = <<>>
    /\ genLog' = <<>>
    /\ fwdLog' = <<>>
    /\ tokLog' = <<>>
    /\ last' = IF call.kind \in {"predict", "translate"} /\ call.f # 0
               THEN Outcome(call, facades[call.f], learnModel, asDict, result, err)
               ELSE last
    /\ UNCHANGED learnerVars
    /\ UNCHANGED registryVars

(* --------------------------- specification ------------------------------ *)
Prefixes == {T5Prefix}
Beams == {1, 2}
BatchSizes == 1..MaxBatchSize
UserCbs == {<<>>, <<GeneratorCb(GenParams(DefaultBeams))>>}

Next ==
    \/ \E m \in UserModels : Construct(UserTokenizer, m)
    \/ \E f \in FacadeIds, m \in SwapModels : SetModel(f, m)
    \/ \E f \in FacadeIds, b \in BOOLEAN : SetAsDict(f, b)
    \/ \E f \in FacadeIds : Train(f)
    \/ \E f \in FacadeIds : Evaluate(f)
    \/ \E f \in FacadeIds, a \in TextArgs, p \in Prefixes, bs \in BatchSizes, nb \in Beams :
          Predict(f, a, p, bs, nb)
    \/ \E i \in Identifiers, a \in TextArgs, p \in Prefixes, bs \in BatchSizes :
          TranslateCached(i, a, p, bs, DefaultBeams)
    \/ \E i \in Identifiers, a \in TextArgs, p \in Prefixes, bs \in BatchSizes :
          TranslateLoad(i, a, p, bs, DefaultBeams)
    \/ \E i \in Identifiers : TranslateLoadFails(i)
    \/ \E l \in UserLoaders \cup {NoLoader}, c \in UserCbs : GetPreds(l, c)
    \/ TokenizeStep
    \/ BatchingStep
    \/ GetPredsGuard
    \/ BeforeValidate
    \/ BeginBatch
    \/ HookPassive
    \/ HookGatherInputs
    \/ HookSetInputs
    \/ HookGenerator
    \/ HookGeneratorRaises
    \/ HookGeneratorNoDict
    \/ DoOneBatch
    \/ AfterBatch
    \/ AfterValidate
    \/ DecodeStep
    \/ DecodeRejects
    \/ DecodeAccepts
    \/ Return

Spec == Init /\ [][Next]_vars

\* two `text` arguments: a str, and the list of MaxTexts texts
SampleArgs ==
    {[isStr |-> TRUE, s |-> <<1>>, l |-> <<>>],
     [isStr |-> FALSE, s |-> <<>>,
      l |-> [i \in 1..MaxTexts |-> IF i % 2 = 1 THEN <<2, 1>> ELSE <<1>>]]}

\* the caller passes what it passed to the predict before, if there was one
Repeats(a, p, bs) ==
    \/ last = NoLast
    \/ last.call.arg = a /\ last.call.prefix = p /\ last.call.mbs = bs

\* The behaviours made of construct, set_model, predict and translate calls
\* alone, every predict repeating the arguments of the one before (on any
\* facade), with everything a pass leaves in the learner kept for the next.
\* generate is a function here: it returns for every batch it is given.
NextCalls ==
    \/ \E m \in UserModels : Construct(UserTokenizer, m)
    \/ \E f \in FacadeIds, m \in SwapModels : SetModel(f, m)
    \/ \E f \in FacadeIds, a \in SampleArgs, p \in Prefixes, bs \in BatchSizes :
          Repeats(a, p, bs) /\ Predict(f, a, p, bs, DefaultBeams)
    \/ \E i \in Identifiers, a \in SampleArgs, p \in Prefixes, bs \in BatchSizes :
          Repeats(a, p, bs) /\ TranslateCached(i, a, p, bs, DefaultBeams)
    \/ \E i \in Identifiers, a \in SampleArgs, p \in Prefixes, bs \in BatchSizes :
          Repeats(a, p, bs) /\ TranslateLoad(i, a, p, bs, DefaultBeams)
    \/ TokenizeStep
    \/ BatchingStep
    \/ GetPredsGuard
    \/ BeforeValidate
    \/ BeginBatch
    \/ HookPassive
    \/ HookGatherInputs
    \/ HookSetInputs
    \/ HookGenerator
    \/ AfterBatch
    \/ AfterValidate
    \/ DecodeStep
    \/ DecodeRejects
    \/ DecodeAccepts
    \/ ReturnKeeping

SpecCalls == Init /\ [][NextCalls]_vars

\* every value a pass reads from the learner was written by that pass
StaleNeverRead ==
    /\ pc \in {"begin_batch", "before_batch", "forward", "after_batch"} => n_inp > 0
    /\ pc \in {"before_batch", "forward"} => xb.kind # "none"
    /\ (pc = "before_batch" /\ hookIdx > 1 /\ RunOrder[hookIdx - 1].name = "GatherInputsCallback")
          => inputs.kind = "dict"
    /\ (pc = "before_batch" /\ hookIdx <= Len(RunOrder)
          /\ RunOrder[hookIdx].name = "SetInputsCallback") => inputs.kind = "dict"
    /\ pc = "after_batch" => pred.rank = 2
    /\ \A i \in 1..Len(gpPreds) : gpPreds[i].rank = 2

(* ------------------------------ properties ------------------------------ *)
Ran(name) == \E i \in 1..Len(hookLog) : hookLog[i] = name
HookPos(name) == CHOOSE i \in 1..Len(hookLog) : hookLog[i] = name
JustRan(name) ==
    /\ pc = "before_batch"
    /\ hookLog # <<>>
    /\ hookLog[Len(hookLog)] = name
ForwardRanFor(k) == \E j \in 1..Len(fwdLog) : fwdLog[j].batch = k

\* C1: within a batch GatherInputsCallback.before_batch runs before
\* SetInputsCallback.before_batch, which runs before
\* GeneratorCallback.before_batch, although the callbacks are registered in
\* another order; once the generator hook has run, the batch never enters
\* the default forward computation.
C1_HookOrder ==
    /\ Ran("SetInputsCallback") =>
          /\ Ran("GatherInputsCallback")
          /\ HookPos("GatherInputsCallback") < HookPos("SetInputsCallback")
    /\ Ran("GeneratorCallback") =>
          /\ Ran("SetInputsCallback")
          /\ HookPos("SetInputsCallback") < HookPos("GeneratorCallback")
          /\ pc # "forward"
          /\ ~ForwardRanFor(batchIdx)

C1_Witness ==
    /\ InPredict
    /\ pc = "after_batch"
    /\ batchIdx = 2
    /\ hookLog = <<"GatherInputsCallback", "SetInputsCallback", "CudaCallback",
                   "GeneratorCallback">>

\* C2: for every batch whose generator hook returned from generate, the
\* generated output is the stored prediction and the default forward
\* computation is not executed; no predict call records a default forward.
C2_NoDefaultForward ==
    /\ \A i \in 1..Len(genLog) : genLog[i].returned => ~ForwardRanFor(genLog[i].batch)
    /\ InPredict => fwdLog = <<>>
    /\ (pc = "after_batch" /\ Ran("GeneratorCallback")) =>
          \A i \in 1..Len(pred.rows) : pred.rows[i].by = "generate"

C2_Witness ==
    /\ InPredict
    /\ pc = "done"
    /\ Len(genLog) = 2
    /\ genLog[2].returned

\* C3: during a facade's predict, generate is invoked on the model that
\* facade was constructed with.
C3_GenerateOnOwnModel ==
    InPredict => \A i \in 1..Len(genLog) : genLog[i].model = facades[call.f].model

\* the i-th output predict is meant to return: the decoding of the
\* sequence generated for the i-th input
ExpectedTranslation(tok, model, sample, params) ==
    Decode(tok, [rank |-> 1,
                 rows |-> Generate(model, Tensor(<<sample[1]>>), Tensor(<<sample[2]>>),
                                   params).rows])

\* C4: a predict that returns, returns one string per input, the i-th being
\* the decoding of the sequence generated for the i-th input.
C4_LengthOrderPreserving ==
    (InPredict /\ pc = "done") =>
        LET tok == facades[call.f].tokenizer
            ds == Tokenize(tok, AddPrefix(facades[call.f].model, call.prefix,
                                          Normalize(call.arg)))
        IN /\ Len(result) = Len(Normalize(call.arg))
           /\ \A i \in 1..Len(ds) :
                 result[i] = ExpectedTranslation(tok, learnModel, ds[i], call.params)

\* C5: a predict on a facade while the placeholder model is bound fails with
\* the "default model" error, and no tokenization happens before it fails.
C5_GuardBeforeTokenization ==
    (InPredict /\ call.f # 0 /\ IsNoopModel(learnModel) /\ pc \in {"done", "error"}) =>
        /\ err = "ValueError: default model"
        /\ tokLog = <<>>

\* C6: an identifier's model is constructed at most once, exactly once as
\* soon as the identifier is cached; translate runs on the cached instance,
\* and a cached entry is never replaced.
C6_LoadedOnce ==
    /\ [](\A i \in Identifiers :
            /\ loads[i] <= 1
            /\ IsCached(translators, i) <=> loads[i] = 1
            /\ IsCached(translators, i) =>
                  /\ facades[translators[i]].tokenizer = LoadedTokenizer(i)
                  /\ call.kind = "translate" /\ call.ident = i => call.f = translators[i])
    /\ [][\A i \in Identifiers :
            translators[i] # 0 => translators'[i] = translators[i]]_vars

C6_Witness ==
    /\ call.kind = "translate"
    /\ call.ident = "t5-small"
    /\ ~call.loaded
    /\ pc = "done"
    /\ translators["t5-small"] = 1
    /\ translators["opus-mt"] = 2

C8_RouterModes ==
    JustRan("SetInputsCallback") =>
        /\ ~asDict =>
              /\ xb.kind = "list"
              /\ Len(xb.items) = Len(inputs.items)
              /\ xb.items[1].v = Lookup(inputs, "input_ids")
              /\ xb.items[2].v = Lookup(inputs, "attention_mask")
              /\ Len(xb.items) > 2 => xb.items[3].v = Lookup(inputs, "token_type_ids")
        /\ asDict => xb = inputs
        /\ inputs.kind = "dict"
        /\ Values(inputs) = CurBatch
        /\ Keys(inputs) = SubSeq(<<"input_ids", "attention_mask", "token_type_ids">>,
                                 1, Len(CurBatch))

C8_Witness ==
    /\ JustRan("SetInputsCallback")
    /\ ~asDict
    /\ xb.kind = "list"
    /\ Len(xb.items) = 3

\* C9: a train or evaluate call raises NotImplementedError from any state
\* and changes neither the bound model, nor the routing flag, nor the
\* callbacks, nor the facades.
C9_StubsRaise ==
    [][call'.kind \in {"train", "evaluate"} =>
          /\ pc' = "error"
          /\ err' = "NotImplementedError"
          /\ UNCHANGED <<learnModel, asDict, cbs, facades, translators>>]_vars

C9_Witness ==
    /\ call.kind = "train"
    /\ pc = "error"
    /\ err = "NotImplementedError"
    /\ ~asDict
    /\ learnModel \in UserModels
    /\ Len(facades) = 2

Singleton(arg) == arg.isStr \/ Len(arg.l) = 1
Sole(arg) == IF arg.isStr THEN arg.s ELSE arg.l[1]

\* C10: a predict given the str s and a predict given the list [s] go
\* through the same text, dataset, loader and generate call and return the
\* same list: each is determined by s alone.
C10_StrAsSingletonList ==
    (InPredict /\ call.f # 0 /\ Singleton(call.arg)) =>
        LET tok == facades[call.f].tokenizer
            t == AddPrefix(facades[call.f].model, call.prefix, <<Sole(call.arg)>>)
            ds == Tokenize(tok, t)
        IN /\ text = t
           /\ pc # "tokenizing" => dataset = ds /\ tokLog = <<t>>
           /\ pc \notin {"tokenizing", "batching"} => dl = DataLoader(ds, call.mbs)
           /\ Len(genLog) <= 1
           /\ pc = "done" =>
                 result = <<ExpectedTranslation(tok, learnModel, ds[1], call.params)>>

C10_Witness ==
    /\ InPredict
    /\ pc = "done"
    /\ call.arg.isStr
    /\ call.arg.s = <<2, 1>>
    /\ Len(result) = 1

SameCall(c, d) ==
    /\ c.f = d.f
    /\ c.arg = d.arg
    /\ c.prefix = d.prefix
    /\ c.mbs = d.mbs
    /\ c.params = d.params

\* C11: a predict that follows a predict on the same facade with the same
\* arguments, the facade and the learner configured as they were, ends as
\* the first did: the same list, or the same exception.  What the first
\* call leaves in learn.xb, learn.inputs and learn.pred does not reach the
\* second; no callback of a call stays registered; a running call changes
\* neither the bound model nor the routing flag.
C11_PredictIdempotent ==
    /\ []((InPredict /\ call.f # 0 /\ pc \in {"done", "error"}
            /\ SameCall(last.call, call)
            /\ last.facade = facades[call.f]
            /\ last.model = learnModel
            /\ last.asDict = asDict)
           => (result = last.result /\ err = last.err))
    /\ [](pc = "idle" => cbs = BaseCbs)
    /\ [][pc # "idle" => UNCHANGED <<learnModel, asDict, facades>>]_vars

C11_Witness ==
    /\ InPredict
    /\ pc = "done"
    /\ SameCall(last.call, call)
    /\ last.facade = facades[call.f]
    /\ last.model = learnModel
    /\ ~call.arg.isStr
    /\ call.mbs = 1
    /\ Len(last.result) = MaxTexts
    /\ pred # NoTensor

\* the steps of a predict call: TOKENIZING = "tokenizing", BATCHING =
\* "batching" .. "before_validate", ASSEMBLING, ROUTING and GENERATING = the
\* three hooks of "before_batch", COLLECTING = "after_batch"
PredictOrder ==
    {<<"idle", "tokenizing">>, <<"tokenizing", "batching">>, <<"batching", "get_preds">>,
     <<"get_preds", "before_validate">>, <<"get_preds", "error">>,
     <<"before_validate", "begin_batch">>, <<"begin_batch", "before_batch">>,
     <<"before_batch", "before_batch">>, <<"before_batch", "after_batch">>,
     <<"before_batch", "error">>,
     <<"after_batch", "begin_batch">>, <<"after_batch", "after_validate">>,
     <<"after_validate", "decoding">>, <<"decoding", "done">>, <<"decoding", "error">>}
IsStage(name) ==
    name \in {"GatherInputsCallback", "SetInputsCallback", "GeneratorCallback"}
Stages == <<"GatherInputsCallback", "SetInputsCallback", "GeneratorCallback">>
StagesRun == SelectSeq(hookLog, IsStage)

\* C12: a predict call moves idle -> tokenizing -> batching -> (per batch:
\* assembling -> routing -> generating -> collecting) -> decoding -> done,
\* or from one of these steps to the error state; a batch starts only when
\* all batches before it are collected, decoding starts only when every
\* batch of the loader is collected, and a call is left only from done or
\* from the error state.
C12_StepOrder ==
    /\ [][(call'.kind \in {"predict", "translate"} /\ call'.f # 0)
            => <<pc, pc'>> \in PredictOrder]_vars
    /\ [][(pc # "idle" /\ pc' = "idle") => pc \in {"done", "error"}]_vars
    /\ [](InPredict =>
            /\ pc \in {"begin_batch", "before_batch", "after_batch"} =>
                  /\ batchIdx = Len(gpPreds) + 1
                  /\ batchIdx <= Len(dl.batches)
            /\ pc = "before_batch" =>
                  StagesRun = SubSeq(Stages, 1, Len(StagesRun))
            /\ pc = "after_batch" => StagesRun = Stages
            /\ pc \in {"after_validate", "decoding", "done"} =>
                  Len(gpPreds) = Len(dl.batches)
            /\ pc = "done" => err = "")

C12_Witness ==
    /\ InPredict
    /\ pc = "done"
    /\ Len(dl.batches) = 2
    /\ Len(gpPreds) = 2
    /\ Len(result) = 2

GenCallsFor(k) == {i \in 1..Len(genLog) : genLog[i].batch = k}

\* C13: when generate raises on batch k of a predict, that call of generate
\* is the only one made for batch k and the last one of the predict; the
\* exception is the outcome of the predict: no prediction is stored or
\* collected for batch k, no batch after k is begun, nothing is decoded and
\* no list is returned; the caller gets the exception.
C13_GenerationFailureAborts ==
    /\ [](InPredict =>
            /\ \A i \in 1..Len(genLog) :
                  /\ ~genLog[i].returned =>
                        (i = Len(genLog) /\ pc = "error" /\ err = "GenerationError")
                  /\ Cardinality(GenCallsFor(genLog[i].batch)) = 1
            /\ err = "GenerationError" =>
                  /\ pc = "error"
                  /\ genLog # <<>>
                  /\ ~genLog[Len(genLog)].returned
                  /\ genLog[Len(genLog)].batch = batchIdx
                  /\ Len(genLog) = batchIdx
                  /\ Len(gpPreds) = batchIdx - 1
                  /\ pred = (IF batchIdx = 1 THEN NoTensor ELSE gpPreds[batchIdx - 1])
                  /\ result = <<>>
                  /\ cbs = BaseCbs)
    /\ [][err = "GenerationError" => (pc' = "idle" /\ call' = NoCall /\ result' = <<>>)]_vars

C13_Witness ==
    /\ InPredict
    /\ err = "GenerationError"
    /\ batchIdx = 1
    /\ Len(dl.batches) = 2
    /\ Len(genLog) = 1
    /\ gpPreds = <<>>

GuardErrors == {"ValueError: dl", "ValueError: default model"}
NothingRan ==
    /\ hookLog = <<>>
    /\ genLog = <<>>
    /\ fwdLog = <<>>
    /\ gpPreds = <<>>
    /\ batchIdx = 0

\* C14: get_preds of the shared learner fails with the `dl` error when no
\* loader is given, and with the default-model error exactly when a loader
\* is given and the bound model is a _NoopModel; a pass is entered only with
\* a loader and another model; a failing guard runs no hook and leaves the
\* bound model, the flag and the registered callbacks as they were.
C14_GetPredsGuards ==
    /\ [][pc = "get_preds" =>
            /\ dl.none => (pc' = "error" /\ err' = "ValueError: dl")
            /\ (~dl.none /\ learnModel.fam = "noop") =>
                  (pc' = "error" /\ err' = "ValueError: default model")
            /\ (~dl.none /\ learnModel.fam # "noop") =>
                  (pc' = "before_validate" /\ err' = "")
            /\ pc' = "error" => UNCHANGED <<learnModel, asDict, cbs, hookLog, genLog, fwdLog>>]_vars
    /\ [](/\ err \in GuardErrors => (pc = "error" /\ NothingRan /\ cbs = BaseCbs)
          /\ pc \in {"before_validate", "begin_batch", "before_batch", "forward",
                      "after_batch", "after_validate"} =>
                (~dl.none /\ learnModel.fam # "noop"))

C14_Witness ==
    /\ call.kind = "get_preds"
    /\ err = "ValueError: default model"
    /\ ~dl.none
    /\ callCbs # <<>>
    /\ learnModel # Placeholder
    /\ ~asDict

\* a step of set_model: between calls, no facade is added, and the bound
\* model or a facade's model attribute changes
SetModelStep ==
    /\ pc = "idle"
    /\ pc' = "idle"
    /\ Len(facades') = Len(facades)
    /\ (learnModel' # learnModel \/ facades' # facades)

\* C15: set_model changes the learner's model reference and the model
\* attribute of the facade it is called on, and nothing else: the
\* registered callbacks with their orders, the as_dict flag, the other
\* facades, the tokenizers and the registry stay as they were.
C15_SetModelSwapsReference ==
    [][SetModelStep =>
         /\ cbs' = cbs
         /\ \A i \in 1..Len(cbs) : cbs'[i].order = cbs[i].order
         /\ asDict' = asDict
         /\ \E f \in FacadeIds :
               /\ facades' = [facades EXCEPT ![f].model = learnModel']
               /\ facades'[f].tokenizer = facades[f].tokenizer
         /\ UNCHANGED <<translators, loads, n_inp, xb, inputs, pred>>]_vars

C15_Witness ==
    /\ pc = "idle"
    /\ Len(facades) = 2
    /\ facades[1].tokenizer = LoadedTokenizer("t5-small")
    /\ facades[1].model \in SwapModels
    /\ learnModel = facades[1].model
    /\ facades[2].model # learnModel
    /\ asDict
    /\ cbs = BaseCbs

GeneratorsTurn ==
    /\ pc = "before_batch"
    /\ hookIdx <= Len(RunOrder)
    /\ RunOrder[hookIdx].name = "GeneratorCallback"

\* C16: under construct, set_model, predict and translate calls, as_dict is
\* false until the first translator is constructed and true ever after; no
\* step of a running call changes it; whenever the generator hook is about
\* to run or has run, learn.xb is the dict with the keys input_ids and
\* attention_mask, never the list.
C16_FlagTrueOnEveryBatch ==
    /\ [](/\ facades = <<>> => ~asDict
          /\ facades # <<>> => asDict
          /\ pc \in {"begin_batch", "before_batch", "after_batch"} => asDict
          /\ (GeneratorsTurn \/ Ran("GeneratorCallback")) =>
                /\ xb.kind = "dict"
                /\ HasKey(xb, "input_ids")
                /\ HasKey(xb, "attention_mask")
                /\ xb = inputs)
    /\ [][pc # "idle" => asDict' = asDict]_vars

C16_Witness ==
    /\ GeneratorsTurn
    /\ batchIdx = 2
    /\ asDict
    /\ xb.kind = "dict"
    /\ Len(facades) = 2
    /\ facades[call.f].model \in SwapModels
    /\ facades[call.f].tokenizer = LoadedTokenizer("opus-mt")

GeneratorsIn(list) == {i \in 1..Len(list) : list[i].name = "GeneratorCallback"}
InPass ==
    pc \in {"before_validate", "begin_batch", "before_batch", "forward", "after_batch",
            "after_validate"}

\* C17: every generate call of a predict is made with the num_beams,
\* min_length, max_length and early_stopping passed to that predict; during
\* its pass exactly one GeneratorCallback is registered, the one holding
\* these parameters, and between calls none is registered, so no call meets
\* the callback or the parameters of an earlier one.
C17_ParamsFixedPerCall ==
    /\ (InPredict /\ call.f # 0) =>
          /\ \A i \in 1..Len(genLog) : genLog[i].params = call.params
          /\ pc \notin {"tokenizing", "batching"} =>
                (Len(callCbs) = 1 /\ callCbs[1].params = call.params)
          /\ InPass =>
                /\ Cardinality(GeneratorsIn(cbs)) = 1
                /\ \A i \in GeneratorsIn(cbs) : cbs[i].params = call.params
          /\ ~InPass => GeneratorsIn(cbs) = {}
    /\ pc = "idle" => (cbs = BaseCbs /\ callCbs = <<>>)

C17_Witness ==
    /\ InPredict
    /\ pc = "done"
    /\ call.params.num_beams = 2
    /\ Len(genLog) = 2
    /\ genLog[1].params.num_beams = 2
    /\ genLog[2].params.num_beams = 2
    /\ learnModel.fam = "t5"

\* ceil(n / size)
CeilDiv(n, size) == CHOOSE k \in 0..n : k * size >= n /\ (k - 1) * size < n
PassOver == pc \in {"after_validate", "decoding", "done"}

\* C18: before the first batch of a pass, before_validate sets n_inp to the
\* length of the loader's first batch, so learn.xb gets every tensor of each
\* batch; taking the sample consumes nothing: the pass starts at the first
\* batch and, when it is over, each batch of the loader has been processed
\* once, in order; a predict of n texts has then called generate
\* ceil(n / mini_batch_size) times.
C18_PeekKeepsLoader ==
    /\ pc \in {"begin_batch", "before_batch", "forward", "after_batch", "after_validate"} =>
          n_inp = Len(dl.batches[1])
    /\ (pc = "before_batch" /\ hookLog = <<>>) =>
          (xb.kind = "tuple" /\ Values(xb) = CurBatch)
    /\ (pc = "begin_batch" /\ gpPreds = <<>>) => batchIdx = 1
    /\ (PassOver /\ call.kind # "none") =>
          /\ Len(gpPreds) = Len(dl.batches)
          /\ Len(genLog) + Len(fwdLog) = Len(dl.batches)
          /\ \A i \in 1..Len(genLog) : genLog[i].batch = i
          /\ \A i \in 1..Len(fwdLog) : fwdLog[i].batch = i
    /\ (PassOver /\ InPredict) =>
          /\ Len(genLog) = CeilDiv(Len(Normalize(call.arg)), call.mbs)
          /\ \A k \in 1..Len(gpPreds) : \A r \in 1..Len(gpPreds[k].rows) :
                gpPreds[k].rows[r].ids = dl.batches[k][1].rows[r]

C18_Witness ==
    /\ InPredict
    /\ pc = "after_validate"
    /\ call.mbs = 1
    /\ Len(dl.batches) = 2
    /\ Len(genLog) = 2
    /\ n_inp = 2
    /\ gpPreds[1].rows[1].ids = dl.batches[1][1].rows[1]

\* C19: when the load of an identifier fails in translate, the exception is
\* the outcome of the call: nothing is tokenized or returned, the
\* identifier's registry entry stays falsy, the registry, the facades and
\* the learner are as before the call, and the next translate of an
\* identifier whose entry is falsy is a load attempt again.
C19_FailedLoadNotCached ==
    /\ [](err = "OSError" =>
            /\ pc = "error"
            /\ call.kind = "translate"
            /\ translators[call.ident] = 0
            /\ loads[call.ident] = 0
            /\ result = <<>>
            /\ tokLog = <<>>
            /\ genLog = <<>>)
    /\ [][err' = "OSError" =>
            UNCHANGED <<translators, facades, loads, learnModel, asDict, cbs>>]_vars
    /\ [][err = "OSError" =>
            (pc' = "idle" /\ UNCHANGED <<translators, facades, loads, learnModel, asDict, cbs>>)]_vars
    /\ [][(call.kind = "none" /\ call'.kind = "translate" /\ translators[call'.ident] = 0)
            => (err' = "OSError" \/ (call'.loaded /\ loads'[call'.ident] = loads[call'.ident] + 1))]_vars

C19_Witness ==
    /\ err = "OSError"
    /\ call.ident = "opus-mt"
    /\ translators["opus-mt"] = 0
    /\ translators["t5-small"] = 1
    /\ Len(facades) = 2
====
